---- MODULE Spec2Model ----
(***************************************************************************)
(* spotifylib.js: the request pipeline of the Spotify client.              *)
(*                                                                         *)
(* One session (class Spotify) holds the bearer access_token and the       *)
(* optional refresher.  A logical call is one invocation of a manager      *)
(* operation: the manager calls Util.fetch, waits for the response, reads  *)
(* the body with Util.toJson and settles the promise it returned.          *)
(* Util.fetch answers a 401 by asking the refresher for a new token and    *)
(* calling itself again.                                                   *)
(***************************************************************************)
EXTENDS Integers, Sequences, FiniteSets, TLC

\* ---------------------------------------------------------------- bounds
\* Tokens the refresher hands out in one run, each one new; after that it
\* answers without a token or fails (Util.fetch itself has no limit on the
\* refreshes and requests of a call).
MaxYields == 2
\* Logical calls in flight on the session in the concurrent workload.
MaxCalls == 2

Calls == 1..MaxCalls
\* 0 is the token passed to new Spotify(access_token); k is the k-th token
\* of the refresher.
Tokens == 0..MaxYields

\* ------------------------------------------------------- the environment
\* Response statuses the server answers with.
Statuses == {200, 204, 401, 500}
\* The workloads of several calls are answered 200 or 401, the statuses
\* the refresh path tells apart; the single call is answered with any.
StatusesOf(w) == IF w = "single" THEN Statuses ELSE {200, 401}
\* Raw response bodies: nothing, text that is not JSON, a JSON object with
\* an error member {error: {status, message}}, a JSON object without one,
\* a JSON array of one element, a JSON array of several.
Bodies == {"empty", "malformed", "err", "obj", "list1", "listN"}
\* A 204 carries no body; arrays are what the followers/contains endpoint
\* answers with.
BodiesOf(o, s) ==
  IF s = 204 THEN {"empty"}
  ELSE IF o = "PlaylistManager.followers"
    THEN {"empty", "malformed", "err", "list1", "listN"}
    ELSE {"empty", "malformed", "err", "obj"}

\* Manager operations (and the bare Util.fetch, whose caller gets the
\* response itself).
Ops ==
  {"Util.fetch", "ArtistManager.get", "ArtistManager.follow",
   "PlayerManager.state", "UserManager.get", "PlaylistManager.follow",
   "PlaylistManager.followers", "Spotify.genres", "CategoryManager.get",
   "PlaylistManager.cover", "PlayerManager.recent", "PlayerManager.devices"}

\* What a run exercises: one logical call of any operation, MaxCalls
\* concurrent calls of Util.fetch on the one session, the same GET
\* (ArtistManager.get) issued twice, Spotify.set called with any key and
\* no request made, or the shortcut methods of the data objects called.
Workloads == {"single", "concurrent", "repeat", "session", "shortcut"}
CallsOf(w) ==
  CASE w = "single" -> {1}
    [] w = "concurrent" -> Calls
    [] w = "repeat" -> {1, 2}
    [] w = "session" -> {}
    [] w = "shortcut" -> {}
OpsOf(w) ==
  CASE w = "single" -> Ops
    [] w = "concurrent" -> {"Util.fetch"}
    [] w = "repeat" -> {"ArtistManager.get"}
    [] w = "session" -> {}
    [] w = "shortcut" -> {}

\* ------------------------------------------------------------ the session
\* Properties the constructor assigns (artists stands for the sub-clients).
OwnKeys == {"access_token", "refresher", "util", "artists"}
\* Members the session inherits from Spotify.prototype.
ProtoKeys == {"constructor", "genres", "set"}
\* Keys a caller passes to set: the above, the inherited accessor
\* __proto__, and a name that is no member at all.
Keys == OwnKeys \cup ProtoKeys \cup {"__proto__", "foo"}
\* Members other than the token and the refresher: as constructed
\* ("original"), assigned by set ("replaced"), or no longer found on the
\* session ("absent").
MemberKeys == {"util", "artists"} \cup ProtoKeys
\* Values passed for such a key: a string, or a plain object {}.
Values == {"string", "object"}
KeysOf(w) == IF w = "session" THEN Keys ELSE {"access_token", "refresher"}
NoCall == [key |-> "none", value |-> "none", known |-> TRUE,
           threw |-> FALSE, changed |-> {}]

\* ------------------------------------------------------------ shortcuts
\* The sub-clients the constructor of Spotify assigns.
SubClients ==
  {"player", "tracks", "playlists", "episodes", "shows", "albums", "artists",
   "categories", "users"}

\* The operations of the sub-clients the shortcuts below go to.
OpsOfClient(client) ==
  CASE client = "player" -> {"state", "transfer", "devices", "current",
                             "start", "resume", "pause", "next", "back",
                             "seek", "repeat", "volume", "shuffle", "recent",
                             "queue"}
    [] client = "playlists" -> {"get", "modify", "tracks", "add", "remove",
                                "users", "follow", "unfollow", "followers",
                                "create", "featured", "categories", "cover",
                                "search"}
    [] client = "albums" -> {"get", "tracks", "saved", "save", "remove",
                             "starred", "releases", "search"}
    [] OTHER -> {}

Shortcut(on, name, client, operation, arg) ==
  [on |-> on, name |-> name, client |-> client, op |-> operation,
   arg |-> arg]

\* The shortcut methods of Playlist and Album: this.spotify.<client>.<op>
\* called with this.id or this.uri.
Shortcuts ==
  {Shortcut("Playlist", "play", "player", "start", "uri"),
   Shortcut("Playlist", "modify", "playlist", "modify", "id"),
   Shortcut("Playlist", "tracks", "playlists", "tracks", "id"),
   Shortcut("Playlist", "add", "playlists", "add", "id"),
   Shortcut("Playlist", "remove", "playlists", "remove", "id"),
   Shortcut("Playlist", "cover", "playlists", "cover", "id"),
   Shortcut("Album", "play", "player", "start", "uri"),
   Shortcut("Album", "save", "albums", "save", "id"),
   Shortcut("Album", "remove", "albums", "remove", "id"),
   Shortcut("Album", "starred", "albums", "starred", "id")}

NoShortcut == [shortcut |-> "none", result |-> "none"]

\* ------------------------------------------------------- request bodies
\* A JavaScript value given as body: its typeof and its own enumerable
\* entries in order (the members of an object, the elements of an array,
\* the characters of a string), each with key k, kind vk and text v.
Item(k, vk, v) == [k |-> k, vk |-> vk, v |-> v]
Value(type, items) == [type |-> type, items |-> items]
\* {}, the default of the body parameter
EmptyObject == Value("object", <<>>)
\* ''
EmptyString == Value("string", <<>>)
\* a string of data, as PlaylistManager.cover passes its image
ImageString ==
  Value("string", <<Item("0", "char", "a"), Item("1", "char", "b")>>)
\* {public: true}
ObjectOne == Value("object", <<Item("public", "boolean", "true")>>)
\* {name: 'x', position: 1, snapshot: undefined}
ObjectSome ==
  Value("object", <<Item("name", "string", "x"),
                    Item("position", "number", "1"),
                    Item("snapshot", "undefined", "undefined")>>)
\* {snapshot: undefined}
ObjectUndefined ==
  Value("object", <<Item("snapshot", "undefined", "undefined")>>)
\* [] and ['x', 1]: typeof an array is 'object'
EmptyArray == Value("array", <<>>)
ArraySome ==
  Value("array", <<Item("0", "string", "x"), Item("1", "number", "1")>>)

BodyArgs ==
  {EmptyObject, EmptyString, ImageString, ObjectOne, ObjectSome,
   ObjectUndefined, EmptyArray, ArraySome}
\* Bodies with their variety are given to the bare Util.fetch of the single
\* workload, PlaylistManager.cover is called with and without an image, and
\* the first of the concurrent calls sends {public: true}; every other call
\* leaves the parameter at its default.
BodyArgsOf(w, o, c) ==
  CASE w = "single" /\ o = "Util.fetch" -> BodyArgs
    [] o = "PlaylistManager.cover" -> {EmptyObject, ImageString}
    [] w = "concurrent" /\ c = 1 -> {ObjectOne}
    [] OTHER -> {EmptyObject}

\* typeof body
TypeOf(value) == IF value.type = "array" THEN "object" ELSE value.type
\* Object.keys(body).length
KeysLength(value) == Len(value.items)

\* JSON text as its sequence of tokens.
Punct(p) == [t |-> "punct", v |-> p]
Literal(item) == [t |-> item.vk, v |-> item.v]
\* JSON.stringify leaves out the members whose value is undefined.
Defined(items) == SelectSeq(items, LAMBDA it : it.vk # "undefined")

RECURSIVE StringifyMembers(_)
StringifyMembers(items) ==
  IF items = <<>> THEN <<>>
  ELSE <<[t |-> "string", v |-> Head(items).k], Punct(":"),
         Literal(Head(items))>>
       \o (IF Tail(items) = <<>> THEN <<>> ELSE <<Punct(",")>>)
       \o StringifyMembers(Tail(items))

RECURSIVE StringifyElements(_)
StringifyElements(items) ==
  IF items = <<>> THEN <<>>
  ELSE <<Literal(Head(items))>>
       \o (IF Tail(items) = <<>> THEN <<>> ELSE <<Punct(",")>>)
       \o StringifyElements(Tail(items))

\* JSON.stringify(body) for an object or an array
Stringify(value) ==
  IF value.type = "array"
    THEN <<Punct("[")>> \o StringifyElements(value.items) \o <<Punct("]")>>
    ELSE <<Punct("{")>> \o StringifyMembers(Defined(value.items))
           \o <<Punct("}")>>

Index == <<"0", "1", "2", "3">>

RECURSIVE ParseMembers(_)
ParseMembers(toks) ==
  IF Head(toks) = Punct("}") THEN <<>>
  ELSE IF Head(toks) = Punct(",") THEN ParseMembers(Tail(toks))
  ELSE <<Item(toks[1].v, toks[3].t, toks[3].v)>>
         \o ParseMembers(SubSeq(toks, 4, Len(toks)))

RECURSIVE ParseElements(_, _)
ParseElements(toks, i) ==
  IF Head(toks) = Punct("]") THEN <<>>
  ELSE IF Head(toks) = Punct(",") THEN ParseElements(Tail(toks), i)
  ELSE <<Item(Index[i], toks[1].t, toks[1].v)>>
         \o ParseElements(Tail(toks), i + 1)

\* JSON.parse(text), what a server echoing the body reads
Parse(toks) ==
  IF Head(toks) = Punct("[")
    THEN Value("array", ParseElements(Tail(toks), 1))
    ELSE Value("object", ParseMembers(Tail(toks)))

\* options.body: not set, a JSON text, or the string given.
NoBody == [kind |-> "absent", text |-> <<>>, raw |-> <<>>]

\* The body handling of the first Util.fetch: every body with keys goes
\* through JSON.stringify, which puts a string in quotes.
SentBodyAlwaysJson(b) ==
  IF KeysLength(b) > 0
    THEN IF TypeOf(b) = "object"
           THEN [kind |-> "json", text |-> Stringify(b), raw |-> <<>>]
           ELSE [kind |-> "json",
                 text |-> <<Punct("\"")>>
                            \o [i \in 1..Len(b.items) |-> Literal(b.items[i])]
                            \o <<Punct("\"")>>,
                 raw |-> <<>>]
    ELSE NoBody

\* if (Object.keys(body).length) { if (typeof body == 'object')
\* options['body'] = JSON.stringify(body); else options['body'] = body; }
SentBody(b) ==
  IF KeysLength(b) > 0
    THEN IF TypeOf(b) = "object"
           THEN [kind |-> "json", text |-> Stringify(b), raw |-> <<>>]
           ELSE [kind |-> "raw", text |-> <<>>, raw |-> b.items]
    ELSE NoBody

\* --------------------------------------------------- request descriptors
\* The operations' own arguments: the cursors of PlayerManager.recent,
\* each left out, 0, or a timestamp.
Cursors == {"undefined", "0", "1650000000000"}
NoArgs == [after |-> "undefined", before |-> "undefined"]
ArgsOf(o) ==
  IF o = "PlayerManager.recent"
    THEN [after : Cursors, before : Cursors]
    ELSE {NoArgs}
\* What if (v) takes as true.
Truthy(v) == v \notin {"undefined", "0"}

\* path, without and with its query string
PathOf(o) == <<"https://api.spotify.com/v1", o>>
\* PlayerManager.recent: opts = {limit}; after if given, else before if
\* given.
QueryOf(o, a) ==
  IF o = "PlayerManager.recent"
    THEN {"limit"} \cup (IF Truthy(a.after) THEN {"after"}
                         ELSE IF Truthy(a.before) THEN {"before"} ELSE {})
    ELSE {}

\* The method argument: put where the operation passes it (for the bare
\* Util.fetch, post with a body), else the default get.
MethodOf(o, b) ==
  CASE o \in {"ArtistManager.follow", "PlaylistManager.follow"} -> "put"
    [] o = "PlaylistManager.cover" ->
         IF b.type = "string" /\ KeysLength(b) > 0 THEN "put" ELSE "get"
    [] o = "Util.fetch" -> IF KeysLength(b) > 0 THEN "post" ELSE "get"
    [] OTHER -> "get"

NoRequest == [path |-> <<>>, query |-> {}, method |-> "none", ctype |-> "none"]

\* The default of the options parameter, a new object at each call:
\* {headers: {'Content-Type': 'application/json'}}; -1 is no Authorization
\* header.
DefaultOptions ==
  [ctype |-> "application/json", auth |-> -1, method |-> "none",
   body |-> NoBody]

VARIABLES
  workload,      \* which calls the run makes
  access_token,  \* Spotify.access_token
  refresher,     \* Spotify.refresher: "null" or "refresher"
  yields,        \* tokens the refresher has handed out
  pc,            \* per call: "idle", "net", "refresh", "json", "done"
  op,            \* per call: the operation invoked
  net,           \* per call: network requests issued (node-fetch calls)
  refreshes,     \* per call: invocations of refresher.request()
  auth,          \* per call: token in the Authorization header last sent
  rtok,          \* per call: token its last refresh yielded (-1: none)
  status,        \* per call: status of the last response received
  body,          \* per call: raw body the manager read from it
  fault,         \* per call: "none", "fetch", "refresh", "throw", "sync"
  attempts,      \* per call: the resolve/reject calls the handler made
  outcome,       \* per call: what the caller's promise settled with
  reqbody,       \* per call: the body argument given to Util.fetch
  sent,          \* per call: options.body of the request last issued
  members,       \* the session's other members, per key of MemberKeys
  shortcall,     \* shortcut workload: the last shortcut and its effect
  args,          \* per call: the cursor arguments given to the operation
  req,           \* per call: path, query, method, Content-Type last sent
  heap,          \* the options objects, one cell per call
  setcall        \* session workload: the last call of set and its effect

vars ==
  <<workload, access_token, refresher, yields, pc, op, net, refreshes, auth,
    rtok, status, body, fault, attempts, outcome, reqbody, sent, members,
    setcall, shortcall, args, req, heap>>

callvars ==
  <<pc, op, net, refreshes, auth, rtok, status, body, fault, attempts,
    outcome>>

Pending == [kind |-> "Pending", val |-> "none"]

\* new Spotify(access_token): the token is stored, refresher is null.
Init ==
  /\ workload \in Workloads
  /\ access_token = 0
  /\ refresher = "null"
  /\ yields = 0
  /\ pc = [c \in Calls |-> "idle"]
  /\ op = [c \in Calls |-> "none"]
  /\ net = [c \in Calls |-> 0]
  /\ refreshes = [c \in Calls |-> 0]
  /\ auth = [c \in Calls |-> -1]
  /\ rtok = [c \in Calls |-> -1]
  /\ status = [c \in Calls |-> 0]
  /\ body = [c \in Calls |-> "none"]
  /\ fault = [c \in Calls |-> "none"]
  /\ attempts = [c \in Calls |-> <<>>]
  /\ outcome = [c \in Calls |-> Pending]
  /\ reqbody = [c \in Calls |-> EmptyObject]
  /\ sent = [c \in Calls |-> NoBody]
  /\ members = [k \in MemberKeys |-> "original"]
  /\ setcall = NoCall
  /\ heap = [c \in Calls |-> DefaultOptions]
  /\ req = [c \in Calls |-> NoRequest]
  /\ args = [c \in Calls |-> NoArgs]
  /\ shortcall = NoShortcut

\* ------------------------------------------------- issuing a request
\* One default options object kept for all calls.
OptionsShared(c) == 1

\* The cell of the options object a call works on: its own.
OptionsOf(c) == c

\* PlaylistManager.cover leaving the Content-Type of its options alone.
CoverOptionsJson(image) == DefaultOptions

\* The options PlaylistManager.cover builds: 'image/jpeg' if (image).
CoverOptions(image) ==
  [DefaultOptions EXCEPT
     !.ctype = IF image.type = "string" /\ KeysLength(image) > 0
                 THEN "image/jpeg" ELSE "application/json"]

\* The options argument Util.fetch starts from: the object the operation
\* passes, or the default of the parameter.
PassedOptions(c, o, b) ==
  IF o = "PlaylistManager.cover" THEN CoverOptions(b) ELSE heap[OptionsOf(c)]

\* Util.fetch writes method, Authorization and (for a body with keys) body
\* into the options object and calls node-fetch(path, options).
Issue(c, o, a, b, m, base, token) ==
  LET written == [ctype |-> base.ctype, auth |-> token, method |-> m,
                  body |-> IF KeysLength(b) > 0
                             THEN SentBody(b) ELSE base.body]
  IN /\ heap' = [heap EXCEPT ![OptionsOf(c)] = written]
     /\ auth' = [auth EXCEPT ![c] = written.auth]
     /\ sent' = [sent EXCEPT ![c] = written.body]
     /\ req' = [req EXCEPT ![c] =
                  [path |-> PathOf(o), query |-> QueryOf(o, a),
                   method |-> written.method, ctype |-> written.ctype]]

\* Util.fetch with the Authorization header prepared once, from the token
\* the session was constructed with.
FetchCaptured(c, o) ==
  /\ pc[c] = "idle"
  /\ c \in CallsOf(workload)
  /\ o \in OpsOf(workload)
  /\ \A d \in Calls : d < c => pc[d] # "idle"
  /\ op' = [op EXCEPT ![c] = o]
  /\ \E b \in BodyArgsOf(workload, o, c) : \E a \in ArgsOf(o) :
       /\ reqbody' = [reqbody EXCEPT ![c] = b]
       /\ args' = [args EXCEPT ![c] = a]
       /\ IF o = "PlayerManager.recent" /\ Truthy(a.after)
               /\ Truthy(a.before)
            THEN /\ pc' = [pc EXCEPT ![c] = "done"]
                 /\ fault' = [fault EXCEPT ![c] = "sync"]
                 /\ UNCHANGED <<net, auth, sent, req, heap>>
            ELSE /\ pc' = [pc EXCEPT ![c] = "net"]
                 /\ net' = [net EXCEPT ![c] = 1]
                 /\ Issue(c, o, a, b, MethodOf(o, b), PassedOptions(c, o, b),
                          0)
                 /\ UNCHANGED fault
  /\ UNCHANGED <<members, setcall, workload, yields, access_token, refresher,
                 refreshes, rtok, status, body, attempts, outcome, shortcall>>

\* An operation is invoked.  PlayerManager.recent throws when given both
\* cursors.  Otherwise the operation calls Util.fetch, whose synchronous
\* part writes the options (the Authorization header from the session's
\* current token) and calls node-fetch.  Calls are numbered in the order
\* in which they start.
Fetch(c, o) ==
  /\ pc[c] = "idle"
  /\ c \in CallsOf(workload)
  /\ o \in OpsOf(workload)
  /\ \A d \in Calls : d < c => pc[d] # "idle"
  /\ op' = [op EXCEPT ![c] = o]
  /\ \E b \in BodyArgsOf(workload, o, c) : \E a \in ArgsOf(o) :
       /\ reqbody' = [reqbody EXCEPT ![c] = b]
       /\ args' = [args EXCEPT ![c] = a]
       /\ IF o = "PlayerManager.recent" /\ Truthy(a.after)
               /\ Truthy(a.before)
            THEN /\ pc' = [pc EXCEPT ![c] = "done"]
                 /\ fault' = [fault EXCEPT ![c] = "sync"]
                 /\ UNCHANGED <<net, auth, sent, req, heap>>
            ELSE /\ pc' = [pc EXCEPT ![c] = "net"]
                 /\ net' = [net EXCEPT ![c] = 1]
                 /\ Issue(c, o, a, b, MethodOf(o, b), PassedOptions(c, o, b),
                          access_token)
                 /\ UNCHANGED fault
  /\ UNCHANGED <<members, setcall, workload, yields, access_token, refresher,
                 refreshes, rtok, status, body, attempts, outcome, shortcall>>

\* ------------------------------------------------- settling the promise
\* resolve(v) and reject(e) as the handlers call them; a throw is an
\* exception raised inside the handler.
Resolve(v) == [act |-> "resolve", kind |-> "Success", val |-> v]

\* new HTTPError(response): carries the response (status, statusText).
RejectHTTPError ==
  [act |-> "reject", kind |-> "HttpFailure", val |-> "response"]

\* new ApiError(error) reads error.status and error.message: with error
\* undefined the constructor throws a TypeError before reject is reached.
RejectApiError(error) ==
  IF error = "undefined"
    THEN [act |-> "throw", kind |-> "TypeError", val |-> "none"]
    ELSE [act |-> "reject", kind |-> "ApiFailure", val |-> error]

\* The promise takes every settlement, the last one standing.
SettleLast(o, step) == [kind |-> step.kind, val |-> step.val]

\* A promise keeps the first value it is settled with.
Settle(o, step) ==
  IF o.kind # "Pending" THEN o ELSE [kind |-> step.kind, val |-> step.val]

\* The statements of a handler that run: those up to the first throw.
RECURSIVE Executed(_)
Executed(steps) ==
  IF steps = <<>> THEN <<>>
  ELSE IF Head(steps).act = "throw" THEN <<Head(steps)>>
  ELSE <<Head(steps)>> \o Executed(Tail(steps))

Threw(steps) == \E i \in 1..Len(steps) : steps[i].act = "throw"

\* The resolve/reject calls that run, in order.
SettleCalls(steps) ==
  SelectSeq(Executed(steps), LAMBDA st : st.act # "throw")

RECURSIVE SettleAll(_, _)
SettleAll(o, steps) ==
  IF steps = <<>> THEN o ELSE SettleAll(Settle(o, Head(steps)), Tail(steps))

\* ------------------------------------------------------------- handlers
\* Util.toJson(response): the parsed body, or null when the body is empty
\* or is not JSON.
ToJson(b) == IF b \in {"empty", "malformed"} THEN "null" ELSE b

\* body.error
BodyError(parsed) == IF parsed = "err" THEN "error" ELSE "undefined"

\* ArtistManager.get: new ApiError(response) is given the response.
ArtistGet(s, parsed) ==
  IF parsed # "null"
    THEN IF s = 200
           THEN <<Resolve("structure")>>
           ELSE <<RejectApiError("response"), RejectHTTPError>>
    ELSE <<RejectHTTPError>>

\* UserManager.get without the test of body: body.error is read whenever
\* the status is not 200.
UserGetUnguarded(s, parsed) ==
  IF s = 200
    THEN <<Resolve("structure")>>
    ELSE <<RejectApiError(BodyError(parsed)), RejectHTTPError>>

\* UserManager.get
UserGet(s, parsed) ==
  IF parsed # "null"
    THEN IF s = 200
           THEN <<Resolve("structure")>>
           ELSE <<RejectApiError(BodyError(parsed)), RejectHTTPError>>
    ELSE <<RejectHTTPError>>

\* PlayerManager.state
PlayerState(s, parsed) ==
  IF parsed # "null"
    THEN IF s = 200
           THEN <<Resolve("body")>>
           ELSE <<RejectApiError(BodyError(parsed)), RejectHTTPError>>
    ELSE <<RejectHTTPError>>

\* ArtistManager.follow
ArtistFollow(s, parsed) ==
  IF s = 204
    THEN <<Resolve("status"), RejectHTTPError>>
    ELSE IF parsed # "null"
           THEN <<RejectApiError(BodyError(parsed)), RejectHTTPError>>
           ELSE <<RejectHTTPError>>

\* PlaylistManager.follow
PlaylistFollow(s, parsed) ==
  IF parsed # "null"
    THEN (IF s = 200 THEN <<Resolve("status")>> ELSE <<>>)
           \o <<RejectApiError(BodyError(parsed)), RejectHTTPError>>
    ELSE <<RejectHTTPError>>

\* PlaylistManager.followers: body[0] is resolved when body.length == 1;
\* control then falls through to the reject calls.
PlaylistFollowers(s, parsed) ==
  IF parsed # "null"
    THEN (IF s = 200 /\ parsed = "list1" THEN <<Resolve("body[0]")>> ELSE <<>>)
           \o <<RejectApiError(BodyError(parsed)), RejectHTTPError>>
    ELSE <<RejectHTTPError>>

\* Spotify.genres (Spotify.markets has the same handler): the promise is
\* built with resolve alone; body.genres, then body, then {status}.
Genres(s, parsed) ==
  IF parsed # "null"
    THEN (IF s = 200 THEN <<Resolve("body.genres")>> ELSE <<>>)
           \o <<Resolve("body"), Resolve("status")>>
    ELSE <<Resolve("status")>>

\* CategoryManager.get: the promise is resolved with
\* fetch(...).then((response) => response.json()), whatever the status;
\* response.json() rejects when the raw body b is empty or is not JSON.
CategoryGet(s, b) ==
  IF b \in {"empty", "malformed"}
    THEN <<[act |-> "reject", kind |-> "JsonError", val |-> "none"]>>
    ELSE <<Resolve("body")>>

\* PlaylistManager.cover
PlaylistCover(s, parsed) ==
  IF parsed # "null"
    THEN IF s = 200
           THEN <<Resolve("body")>>
           ELSE (IF parsed = "err"
                   THEN <<RejectApiError(BodyError(parsed))>> ELSE <<>>)
                  \o <<RejectHTTPError>>
    ELSE IF s = 200 THEN <<Resolve("status")>> ELSE <<RejectHTTPError>>

\* PlayerManager.recent, after Util.fetch has answered
PlayerRecent(s, parsed) ==
  IF parsed # "null"
    THEN IF s = 200
           THEN <<Resolve("tracks")>>
           ELSE <<RejectApiError(BodyError(parsed)), RejectHTTPError>>
    ELSE <<RejectHTTPError>>

\* PlayerManager.devices
PlayerDevices(s, parsed) ==
  IF s = 204
    THEN <<Resolve("status"), RejectHTTPError>>
    ELSE IF parsed # "null"
           THEN <<RejectApiError(BodyError(parsed)), RejectHTTPError>>
           ELSE <<RejectHTTPError>>

Handler(o, s, parsed) ==
  CASE o = "ArtistManager.get" -> ArtistGet(s, parsed)
    [] o = "UserManager.get" -> UserGet(s, parsed)
    [] o = "PlayerManager.state" -> PlayerState(s, parsed)
    [] o = "ArtistManager.follow" -> ArtistFollow(s, parsed)
    [] o = "PlaylistManager.follow" -> PlaylistFollow(s, parsed)
    [] o = "PlaylistManager.followers" -> PlaylistFollowers(s, parsed)
    [] o = "Spotify.genres" -> Genres(s, parsed)
    [] o = "PlaylistManager.cover" -> PlaylistCover(s, parsed)
    [] o = "PlayerManager.recent" -> PlayerRecent(s, parsed)
    [] o = "PlayerManager.devices" -> PlayerDevices(s, parsed)

\* ----------------------------------------------------------- Util.fetch
\* resolve(response): the promise of Util.fetch is resolved with the
\* response.  The caller of the bare Util.fetch has its result; a manager
\* goes on to read the body with Util.toJson(response).
Deliver(c) ==
  IF op[c] = "Util.fetch"
    THEN /\ pc' = [pc EXCEPT ![c] = "done"]
         /\ outcome' = [outcome EXCEPT ![c] =
                          [kind |-> "Response", val |-> "response"]]
    ELSE /\ pc' = [pc EXCEPT ![c] = "json"]
         /\ UNCHANGED outcome

\* The response handler testing the refresher the session was constructed
\* with (null): no 401 ever goes to a refresher.
RespondNeverRefresh(c, s) ==
  /\ pc[c] = "net"
  /\ s \in StatusesOf(workload)
  /\ status' = [status EXCEPT ![c] = s]
  /\ Deliver(c)
  /\ UNCHANGED <<reqbody, sent, members, setcall, workload, yields,
                 access_token, refresher, op, net, auth, rtok, body, fault,
                 attempts, refreshes, shortcall, args, req, heap>>

\* The response handler asking for a refresh on every failure status, not
\* the 401 alone.
RespondRefreshOnError(c, s) ==
  /\ pc[c] = "net"
  /\ s \in StatusesOf(workload)
  /\ status' = [status EXCEPT ![c] = s]
  /\ IF s >= 400 /\ refresher # "null"
       THEN /\ pc' = [pc EXCEPT ![c] = "refresh"]
            /\ refreshes' = [refreshes EXCEPT ![c] = @ + 1]
            /\ UNCHANGED outcome
       ELSE /\ Deliver(c)
            /\ UNCHANGED refreshes
  /\ UNCHANGED <<reqbody, sent, members, setcall, workload, yields,
                 access_token, refresher, op, net, auth, rtok, body, fault,
                 attempts, shortcall, args, req, heap>>

\* The response handler without the test of this.spotify.refresher: every
\* 401 goes to the refresher.
RespondRefreshAlways(c, s) ==
  /\ pc[c] = "net"
  /\ s \in StatusesOf(workload)
  /\ status' = [status EXCEPT ![c] = s]
  /\ IF s = 401
       THEN /\ pc' = [pc EXCEPT ![c] = "refresh"]
            /\ refreshes' = [refreshes EXCEPT ![c] = @ + 1]
            /\ UNCHANGED outcome
       ELSE /\ Deliver(c)
            /\ UNCHANGED refreshes
  /\ UNCHANGED <<reqbody, sent, members, setcall, workload, yields,
                 access_token, refresher, op, net, auth, rtok, body, fault,
                 attempts, shortcall, args, req, heap>>

\* fetch(path, options).then((response) => ...): a 401 with a refresher set
\* invokes refresher.request(); every other response is resolved.
Respond(c, s) ==
  /\ pc[c] = "net"
  /\ s \in StatusesOf(workload)
  /\ status' = [status EXCEPT ![c] = s]
  /\ IF s = 401 /\ refresher # "null"
       THEN /\ pc' = [pc EXCEPT ![c] = "refresh"]
            /\ refreshes' = [refreshes EXCEPT ![c] = @ + 1]
            /\ UNCHANGED outcome
       ELSE /\ Deliver(c)
            /\ UNCHANGED refreshes
  /\ UNCHANGED <<reqbody, sent, members, setcall, workload, yields,
                 access_token, refresher, op, net, auth, rtok, body, fault,
                 attempts, shortcall, args, req, heap>>

\* node-fetch rejects (DNS, connection refused, timeout): the promise chain
\* has no rejection handler and the executor has no reject, so nothing
\* settles the promise Util.fetch returned.
FetchReject(c) ==
  /\ pc[c] = "net"
  /\ pc' = [pc EXCEPT ![c] = "done"]
  /\ fault' = [fault EXCEPT ![c] = "fetch"]
  /\ UNCHANGED <<reqbody, sent, members, setcall, workload, yields,
                 access_token, refresher, op, net, refreshes, auth, rtok,
                 status, body, attempts, outcome, shortcall, args, req, heap>>

\* The refresh handler retrying without spotify.set('access_token', ...):
\* the retry is written from the session's old token.
RefreshYieldUnset(c) ==
  /\ pc[c] = "refresh"
  /\ yields < MaxYields
  /\ yields' = yields + 1
  /\ rtok' = [rtok EXCEPT ![c] = yields']
  /\ net' = [net EXCEPT ![c] = @ + 1]
  /\ pc' = [pc EXCEPT ![c] = "net"]
  /\ Issue(c, op[c], args[c], reqbody[c], MethodOf(op[c], reqbody[c]),
           heap[OptionsOf(c)], access_token)
  /\ UNCHANGED <<reqbody, members, setcall, workload, access_token, refresher,
                 op, refreshes, status, body, fault, attempts, outcome,
                 shortcall, args>>

\* The refresh handler retrying with the options of the first attempt: the
\* session's token is set, the request goes out again with the header it
\* had.
RefreshYieldStale(c) ==
  /\ pc[c] = "refresh"
  /\ yields < MaxYields
  /\ yields' = yields + 1
  /\ access_token' = yields'
  /\ rtok' = [rtok EXCEPT ![c] = yields']
  /\ net' = [net EXCEPT ![c] = @ + 1]
  /\ pc' = [pc EXCEPT ![c] = "net"]
  /\ Issue(c, op[c], args[c], reqbody[c], MethodOf(op[c], reqbody[c]),
           heap[OptionsOf(c)], auth[c])
  /\ UNCHANGED <<reqbody, members, setcall, workload, refresher, op,
                 refreshes, status, body, fault, attempts, outcome, shortcall,
                 args>>

\* The refresh handler retrying without the method: this.fetch({path, body,
\* options}) falls back to the default get.
RefreshYieldGet(c) ==
  /\ pc[c] = "refresh"
  /\ yields < MaxYields
  /\ yields' = yields + 1
  /\ access_token' = yields'
  /\ rtok' = [rtok EXCEPT ![c] = yields']
  /\ net' = [net EXCEPT ![c] = @ + 1]
  /\ pc' = [pc EXCEPT ![c] = "net"]
  /\ Issue(c, op[c], args[c], reqbody[c], "get",
           heap[OptionsOf(c)], access_token')
  /\ UNCHANGED <<reqbody, members, setcall, workload, refresher, op,
                 refreshes, status, body, fault, attempts, outcome, shortcall,
                 args>>

\* refresher.request() yields {access_token: t}, t a new token: the
\* session's token is set and Util.fetch calls itself with the path,
\* method, body and options of the call, which writes the options again
\* (the Authorization header from the session's token) and issues the
\* request again.
RefreshYield(c) ==
  /\ pc[c] = "refresh"
  /\ yields < MaxYields
  /\ yields' = yields + 1
  /\ access_token' = yields'
  /\ rtok' = [rtok EXCEPT ![c] = yields']
  /\ net' = [net EXCEPT ![c] = @ + 1]
  /\ pc' = [pc EXCEPT ![c] = "net"]
  /\ Issue(c, op[c], args[c], reqbody[c], MethodOf(op[c], reqbody[c]),
           heap[OptionsOf(c)], access_token')
  /\ UNCHANGED <<reqbody, members, setcall, workload, refresher, op,
                 refreshes, status, body, fault, attempts, outcome, shortcall,
                 args>>

\* The refresh handler storing res.access_token without testing it: a
\* result without a token clears the session's token (-1: undefined).
RefreshEmptyClears(c) ==
  /\ pc[c] = "refresh"
  /\ access_token' = -1
  /\ Deliver(c)
  /\ UNCHANGED <<reqbody, sent, members, setcall, workload, yields,
                 refresher, op, net, refreshes, auth, rtok, status, body,
                 fault, attempts, shortcall, args, req, heap>>

\* refresher.request() yields a result without access_token: the 401
\* response is resolved.
RefreshEmpty(c) ==
  /\ pc[c] = "refresh"
  /\ Deliver(c)
  /\ UNCHANGED <<reqbody, sent, members, setcall, workload, yields,
                 access_token, refresher, op, net, refreshes, auth, rtok,
                 status, body, fault, attempts, shortcall, args, req, heap>>

\* refresher.request() rejects: .then has no rejection handler, nothing
\* settles the promise Util.fetch returned.
RefreshReject(c) ==
  /\ pc[c] = "refresh"
  /\ pc' = [pc EXCEPT ![c] = "done"]
  /\ fault' = [fault EXCEPT ![c] = "refresh"]
  /\ UNCHANGED <<reqbody, sent, members, setcall, workload, yields,
                 access_token, refresher, op, net, refreshes, auth, rtok,
                 status, body, attempts, outcome, shortcall, args, req, heap>>

\* ------------------------------------------------------------- managers
\* The call started last on the session.
LastStarted ==
  CHOOSE c \in Calls :
    pc[c] # "idle" /\ \A d \in Calls : d > c => pc[d] = "idle"

\* The handler settling through a resolve/reject kept on the session: it
\* settles the promise of the call started last.
ClassifyShared(c, b) ==
  /\ pc[c] = "json"
  /\ b \in BodiesOf(op[c], status[c])
  /\ LET steps == IF op[c] = "CategoryManager.get"
                    THEN CategoryGet(status[c], b)
                    ELSE Handler(op[c], status[c], ToJson(b))
     IN /\ attempts' = [attempts EXCEPT ![LastStarted] = SettleCalls(steps)]
        /\ outcome' = [outcome EXCEPT ![LastStarted] =
                         SettleAll(outcome[LastStarted], SettleCalls(steps))]
        /\ fault' = [fault EXCEPT ![c] =
                       IF Threw(steps) THEN "throw" ELSE "none"]
  /\ body' = [body EXCEPT ![c] = b]
  /\ pc' = [pc EXCEPT ![c] = "done"]
  /\ UNCHANGED <<reqbody, sent, members, setcall, workload, yields,
                 access_token, refresher, op, net, refreshes, auth, rtok,
                 status, shortcall, args, req, heap>>

\* Util.toJson(response).then((body) => ...): the handler of the manager
\* operation runs on the parsed body and settles the caller's promise.
Classify(c, b) ==
  /\ pc[c] = "json"
  /\ b \in BodiesOf(op[c], status[c])
  /\ LET steps == IF op[c] = "CategoryManager.get"
                    THEN CategoryGet(status[c], b)
                    ELSE Handler(op[c], status[c], ToJson(b))
     IN /\ attempts' = [attempts EXCEPT ![c] = SettleCalls(steps)]
        /\ outcome' = [outcome EXCEPT ![c] =
                         SettleAll(Pending, SettleCalls(steps))]
        /\ fault' = [fault EXCEPT ![c] =
                       IF Threw(steps) THEN "throw" ELSE "none"]
  /\ body' = [body EXCEPT ![c] = b]
  /\ pc' = [pc EXCEPT ![c] = "done"]
  /\ UNCHANGED <<reqbody, sent, members, setcall, workload, yields,
                 access_token, refresher, op, net, refreshes, auth, rtok,
                 status, shortcall, args, req, heap>>

\* -------------------------------------------------------------- session
\* key in this: own properties and whatever the prototype chain provides.
KeyIn(key) ==
  \/ key \in {"access_token", "refresher", "__proto__"}
  \/ key \in MemberKeys /\ members[key] # "absent"

\* The value a caller reads back under a key.
Lookup(key, t, r, m) ==
  CASE key = "access_token" -> t
    [] key = "refresher" -> r
    [] key \in MemberKeys -> m[key]
    [] OTHER -> "undefined"

\* this[key] = value for the other members.  Assigning an object to
\* __proto__ swaps the prototype: the members inherited from
\* Spotify.prototype are no longer found (constructor is now Object's); a
\* string assigned to __proto__ is ignored.
Assign(key, value) ==
  IF key = "__proto__"
    THEN IF value = "object"
           THEN [k \in MemberKeys |->
                   IF k \in ProtoKeys /\ members[k] = "original"
                     THEN (IF k = "constructor" THEN "replaced" ELSE "absent")
                     ELSE members[k]]
           ELSE members
    ELSE [members EXCEPT ![key] = "replaced"]

\* The values a run passes to set under a key.
ValuesOf(key) ==
  CASE key = "access_token" ->
         IF workload = "session" THEN Tokens ELSE 0..yields
    [] key = "refresher" -> {"null", "refresher"}
    [] OTHER -> Values

\* Spotify.set(key, value), called as a method of the session: a key that
\* is not in the session throws and nothing is assigned; any other key is
\* assigned.
Set(key, value) ==
  /\ members["set"] = "original"
  /\ key \in KeysOf(workload)
  /\ value \in ValuesOf(key)
  /\ IF ~KeyIn(key)
       THEN /\ UNCHANGED <<access_token, refresher, members>>
            /\ setcall' = [key |-> key, value |-> value, known |-> FALSE,
                           threw |-> TRUE, changed |-> {}]
       ELSE /\ access_token' =
                 IF key = "access_token" THEN value ELSE access_token
            /\ refresher' = IF key = "refresher" THEN value ELSE refresher
            /\ members' = IF key \in MemberKeys \cup {"__proto__"}
                            THEN Assign(key, value) ELSE members
            /\ setcall' =
                 IF workload = "session"
                   THEN [key |-> key, value |-> value, known |-> TRUE,
                         threw |-> FALSE,
                         changed |->
                           {k \in Keys :
                              Lookup(k, access_token', refresher', members')
                                # Lookup(k, access_token, refresher, members)}]
                   ELSE setcall
  /\ UNCHANGED <<reqbody, sent, workload, yields, pc, op, net, refreshes,
                 auth, rtok, status, body, fault, attempts, outcome,
                 shortcall, args, req, heap>>

\* A shortcut of a data object is called: this.spotify.<client> is read and
\* its operation invoked.  Reading an operation of a member the session
\* does not have, or calling an operation the sub-client does not have,
\* throws a TypeError.
CallShortcut(sc) ==
  /\ workload = "shortcut"
  /\ sc \in Shortcuts
  /\ shortcall' =
       [shortcut |-> sc,
        result |-> IF sc.client \in SubClients
                        /\ sc.op \in OpsOfClient(sc.client)
                     THEN "delegated" ELSE "TypeError"]
  /\ UNCHANGED <<workload, access_token, refresher, yields, pc, op, net,
                 refreshes, auth, rtok, status, body, fault, attempts,
                 outcome, reqbody, sent, members, setcall, args, req, heap>>

Next ==
  \/ \E c \in Calls : \E o \in Ops : Fetch(c, o)
  \/ \E c \in Calls : \E s \in Statuses : Respond(c, s)
  \/ \E c \in Calls : FetchReject(c)
  \/ \E c \in Calls : RefreshYield(c)
  \/ \E c \in Calls : RefreshEmpty(c)
  \/ \E c \in Calls : RefreshReject(c)
  \/ \E c \in Calls : \E b \in Bodies : Classify(c, b)
  \/ \E v \in Tokens : Set("access_token", v)
  \/ \E v \in {"null", "refresher"} : Set("refresher", v)
  \/ \E k \in Keys \ {"access_token", "refresher"} :
       \E v \in Values : Set(k, v)
  \/ \E sc \in Shortcuts : CallShortcut(sc)

Spec == Init /\ [][Next]_vars

\* ================================================================ claims
Done(c) == pc[c] = "done"
\* The operations whose handler rejects with ApiError and HTTPError.
Classifying ==
  {"ArtistManager.get", "ArtistManager.follow", "PlayerManager.state",
   "UserManager.get", "PlaylistManager.follow", "PlaylistManager.followers"}
Manager(c) == op[c] \in Classifying
Settled(c) == outcome[c].kind # "Pending"
Endpoint(c) == op[c] \notin {"none", "Util.fetch"}

\* C1: one logical call of Util.fetch issues at most two network requests
\* (the original and at most one retry), whatever the server answers and
\* with a refresher that always yields a token.
C1_AtMostTwoNetworkCalls == \A c \in Calls : net[c] <= 2

C3_ExactlyTwoCallsAfterRefresh ==
  \A c \in Calls : rtok[c] # -1 => (net[c] = 2 /\ auth[c] = rtok[c])

\* C4: when the refresher does not yield a token (no access_token, or its
\* request() rejects) the refresh was attempted once, the request is not
\* issued again and Util.fetch ends with the original 401 response.
C4_FailedRefreshEndsWithThe401 ==
  \A c \in Calls :
    (Done(c) /\ op[c] = "Util.fetch" /\ refreshes[c] >= 1 /\ rtok[c] = -1)
    => /\ refreshes[c] = 1
       /\ net[c] = 1
       /\ status[c] = 401
       /\ outcome[c].kind = "Response"

\* C5: a refresh that yields a token sets the session's access_token to it
\* before the retry is issued (the retry carries it); a response that is
\* handed on, a refresh without a token and the reading of a body leave
\* access_token alone: it changes only by such a refresh or by the caller's
\* own set('access_token', v).
C5_TokenFollowsRefresh ==
  [][/\ \A c \in Calls :
          (pc[c] = "refresh" /\ pc'[c] = "net")
          => /\ rtok'[c] \in 1..MaxYields
             /\ access_token' = rtok'[c]
             /\ auth'[c] = rtok'[c]
             /\ net'[c] = net[c] + 1
     /\ access_token' # access_token
          => \/ \E c \in Calls : pc[c] = "refresh" /\ pc'[c] = "net"
             \/ UNCHANGED callvars]_vars

\* The scenario of the spec: 401, the refresher yields token 1, the retry
\* carries it and returns 200, the session's token is now 1.
C5_Witness ==
  \E c \in Calls :
    /\ Done(c) /\ Manager(c) /\ net[c] = 2 /\ refreshes[c] = 1
    /\ status[c] = 200 /\ outcome[c].kind = "Success"
    /\ rtok[c] = 1 /\ auth[c] = 1 /\ access_token = 1

\* C6: a rejection of node-fetch reaches the caller as a failed outcome
\* after one network request.
C6_TransportFailurePropagates ==
  \A c \in Calls :
    fault[c] = "fetch" => (net[c] = 1 /\ outcome[c].kind = "TransportFailure")

C8_HandledCallIsSettled ==
  \A c \in Calls : (Done(c) /\ body[c] # "none") => Settled(c)

\* C9: a 2xx response whose JSON body has an error member is classified
\* ApiFailure.
C9_ErrorBodyOn2xxIsApiFailure ==
  \A c \in Calls :
    (Done(c) /\ Manager(c) /\ status[c] \in {200, 204}
       /\ ToJson(body[c]) = "err")
    => outcome[c].kind = "ApiFailure"

\* C10: a 2xx response without an error member is classified Success; a
\* response without content gives the status-only marker {status}.  Stated
\* for the follow operations of the artist and the playlist manager.
C10_2xxWithoutErrorIsSuccess ==
  \A c \in Calls :
    (Done(c) /\ op[c] \in {"ArtistManager.follow", "PlaylistManager.follow"}
       /\ status[c] \in {200, 204}
       /\ body[c] # "none" /\ ToJson(body[c]) # "err")
    => /\ outcome[c].kind = "Success"
       /\ body[c] = "empty" => outcome[c].val = "status"

\* C11: a non-2xx response whose JSON body has an error member is
\* classified ApiFailure carrying that error object, in every manager
\* operation.
C11_ErrorBodyIsCarried ==
  \A c \in Calls :
    (Done(c) /\ Manager(c) /\ status[c] \notin {200, 204}
       /\ ToJson(body[c]) = "err")
    => outcome[c] = [kind |-> "ApiFailure", val |-> "error"]

C13_Non2xxIsNeverResolved ==
  \A c \in Calls :
    (Done(c) /\ Endpoint(c) /\ status[c] \notin {200, 204})
    => outcome[c].kind # "Success"

\* C14: every request Util.fetch issues, the first of a call and every
\* retry, carries in its Authorization header the session's access_token
\* of the moment it is issued; no other step rewrites the header.
C14_RequestCarriesCurrentToken ==
  [][\A c \in Calls :
       /\ net'[c] > net[c] => auth'[c] = access_token'
       /\ net'[c] = net[c] => auth'[c] = auth[c]]_vars

\* Call 1 was refreshed to token 1; call 2, started after that, sent its
\* first request with token 1 and not with the constructor's token 0.
C14_Witness ==
  /\ rtok[1] = 1 /\ access_token = 1
  /\ pc[2] = "net" /\ net[2] = 1 /\ refreshes[2] = 0 /\ auth[2] = 1

\* C15: with several calls in flight on the session, the request a call
\* issues again after its refresh carries the token that refresh returned;
\* no step of another call (a response, a refresh that sets the session's
\* token, a set by the caller) changes the token a call's request went out
\* with.
C15_RetryCarriesOwnToken ==
  /\ [][\A c \in Calls :
          /\ (pc[c] = "refresh" /\ pc'[c] = "net")
               => (rtok'[c] # -1 /\ auth'[c] = rtok'[c])
          /\ (\E d \in Calls : d # c /\ pc'[d] # pc[d])
               => (auth'[c] = auth[c] /\ rtok'[c] = rtok[c])]_vars
  /\ [](\A c \in Calls : rtok[c] # -1 => auth[c] = rtok[c])

\* Two calls were both answered 401 and both refreshed: call 1 got token 1,
\* call 2 got token 2 and moved the session's token on while the retry of
\* call 1 was still in flight with token 1.
C15_Witness ==
  /\ workload = "concurrent"
  /\ pc[1] = "net" /\ net[1] = 2 /\ rtok[1] = 1 /\ auth[1] = 1
  /\ pc[2] = "net" /\ net[2] = 2 /\ rtok[2] = 2 /\ auth[2] = 2
  /\ access_token = 2

OwnOutcome(c) ==
  SettleAll(Pending, SettleCalls(Handler(op[c], status[c], ToJson(body[c]))))

\* C19: a GET issued twice on a session whose token is valid (each request
\* is answered 200 with a JSON body) gives each call a successful outcome
\* made from the response that call received, after one request and no
\* refresh; the step that completes such a call changes neither the
\* session's access_token nor its refresher nor anything of the other call.
C19_RepeatedGetIsIndependent ==
  /\ [][\A c \in Calls :
          (~Done(c) /\ Done(c)' /\ status'[c] = 200 /\ refreshes'[c] = 0
             /\ fault'[c] = "none")
          => /\ access_token' = access_token
             /\ refresher' = refresher
             /\ yields' = yields
             /\ \A d \in Calls \ {c} :
                   /\ pc'[d] = pc[d] /\ net'[d] = net[d]
                   /\ refreshes'[d] = refreshes[d] /\ auth'[d] = auth[d]
                   /\ status'[d] = status[d] /\ body'[d] = body[d]
                   /\ attempts'[d] = attempts[d]
                   /\ outcome'[d] = outcome[d]]_vars
  /\ [](\A c \in Calls :
          (Done(c) /\ op[c] \in {"ArtistManager.get", "UserManager.get",
                                 "PlayerManager.state"}
             /\ status[c] = 200 /\ refreshes[c] = 0
             /\ ToJson(body[c]) \notin {"null", "none"})
          => /\ net[c] = 1
             /\ outcome[c].kind = "Success"
             /\ outcome[c] = OwnOutcome(c))

\* ArtistManager.get was issued twice and answered 200 with a JSON object
\* both times; the session's token is still the one it was built with.
C19_Witness ==
  /\ workload = "repeat"
  /\ \A c \in {1, 2} :
        /\ Done(c) /\ op[c] = "ArtistManager.get" /\ status[c] = 200
        /\ body[c] = "obj" /\ net[c] = 1 /\ refreshes[c] = 0
        /\ outcome[c].kind = "Success"
  /\ access_token = 0

\* C16: set with a key that is not a property of the session throws and
\* changes no property; set with a key that is one does not throw and
\* changes that property and no other.
C16_SetReplacesExactlyTheKey ==
  setcall.key # "none"
  => IF setcall.known
       THEN ~setcall.threw /\ setcall.changed \subseteq {setcall.key}
       ELSE setcall.threw /\ setcall.changed = {}

\* C17: set rejects every key that names a method or an inherited member
\* of the session, and the members inherited from Spotify.prototype are
\* never replaced or lost.
C17_OnlyMutablePropertiesAreSettable ==
  /\ setcall.key \in ProtoKeys \cup {"__proto__"} => setcall.threw
  /\ \A k \in ProtoKeys : members[k] = "original"

\* Two values with the same members once those that are undefined are
\* left out (what JSON can carry).
Equivalent(x, y) == x.type = y.type /\ Defined(x.items) = Defined(y.items)

\* C20: in every request Util.fetch has issued, the first and the retries,
\* a body without keys ({} by default, '', []) is not sent; a string is
\* sent as it is; an object or an array with keys is sent as JSON text, and
\* parsing that text gives back an equivalent structure.
C20_BodyIsSerialized ==
  \A c \in Calls :
    net[c] >= 1 =>
      LET b == reqbody[c] IN
        /\ KeysLength(b) = 0 => sent[c].kind = "absent"
        /\ (b.type = "string" /\ KeysLength(b) > 0)
             => (sent[c].kind = "raw" /\ sent[c].raw = b.items)
        /\ (b.type # "string" /\ KeysLength(b) > 0)
             => /\ sent[c].kind = "json"
                /\ Equivalent(Parse(sent[c].text), b)

\* {name: 'x', position: 1, snapshot: undefined} went out as JSON text of
\* two members, on the first request and again on the retry.
C20_Witness ==
  \E c \in Calls :
    /\ net[c] = 2 /\ reqbody[c] = ObjectSome
    /\ sent[c].kind = "json" /\ Len(sent[c].text) = 9
    /\ Parse(sent[c].text) # reqbody[c]

\* C21: every shortcut of a data object reaches an operation that exists
\* on a sub-client of the session, with the object's own id or uri, and
\* never fails for lack of the sub-client.
C21_ShortcutsDelegate ==
  shortcall.result # "none"
  => /\ shortcall.result = "delegated"
     /\ shortcall.shortcut.client \in SubClients
     /\ shortcall.shortcut.op \in OpsOfClient(shortcall.shortcut.client)
     /\ shortcall.shortcut.arg \in {"id", "uri"}

\* C22: the request issued again after a refresh is the request of the
\* first attempt: same path and query, same method, same Content-Type and
\* the same body (the JSON text of an object body, the string of a string
\* body, none where none was sent); only the Authorization header differs,
\* now carrying the refreshed token.
C22_RetryRepeatsTheRequest ==
  [][\A c \in Calls :
       (pc[c] = "refresh" /\ pc'[c] = "net")
       => /\ req'[c] = req[c]
          /\ sent'[c] = sent[c]
          /\ reqbody'[c] = reqbody[c]
          /\ auth'[c] = rtok'[c]
          /\ auth'[c] # auth[c]]_vars

\* PlaylistManager.cover(id, image) was answered 401 and issued again: a
\* PUT of the image string as image/jpeg, now with token 1.
C22_Witness ==
  \E c \in Calls :
    /\ op[c] = "PlaylistManager.cover" /\ net[c] = 2 /\ refreshes[c] = 1
    /\ req[c].method = "put" /\ req[c].ctype = "image/jpeg"
    /\ sent[c].kind = "raw" /\ sent[c].raw = ImageString.items
    /\ auth[c] = 1

\* C23: a response whose status is not 401 ends Util.fetch at once: the
\* response is handed on, no request is added and refresher.request() is
\* not invoked, with or without a refresher set and whatever the status.
\* A call whose first response is not a 401 has made exactly one request.
C23_Non401IsTerminal ==
  /\ [][\A c \in Calls :
          (pc[c] = "net" /\ pc'[c] # "net" /\ fault'[c] = "none"
             /\ status'[c] # 401)
          => /\ pc'[c] \in {"json", "done"}
             /\ net'[c] = net[c]
             /\ refreshes'[c] = refreshes[c]
             /\ yields' = yields
             /\ access_token' = access_token]_vars
  /\ [](\A c \in Calls :
          (pc[c] \in {"json", "done"} /\ status[c] \in Statuses \ {401}
             /\ refreshes[c] = 0)
          => net[c] = 1)

\* With a refresher set, a 500 was handed on after one request and no
\* refresh.
C23_Witness ==
  \E c \in Calls :
    /\ Done(c) /\ status[c] = 500 /\ refresher = "refresher"
    /\ net[c] = 1 /\ refreshes[c] = 0 /\ yields = 0

\* C24: when two concurrent calls on one session both receive a 401, each
\* invokes the refresher once and issues its request once more: no call
\* makes more than two requests, under every interleaving.
C24_ConcurrentRefreshOncePerCall ==
  (workload = "concurrent" /\ \A c \in {1, 2} : refreshes[c] >= 1)
  => \A c \in {1, 2} : refreshes[c] = 1 /\ net[c] <= 2

\* C25: the session's access_token is always the constructor's token, a
\* token the refresher has handed out, or a value the caller passed to
\* set; a refresh that ends without a token (a result without
\* access_token, or a rejection) leaves the stored token as it was.
C25_TokenIsNeverCorrupted ==
  /\ [][\A c \in Calls :
          (pc[c] = "refresh" /\ pc'[c] # "refresh" /\ rtok'[c] = rtok[c])
          => access_token' = access_token]_vars
  /\ [](access_token \in
          {0} \cup 1..yields \cup ValuesOf("access_token"))

\* The refresher handed out token 1, the retry was answered 401 and the
\* second refresh came back without a token: the session still holds 1.
C25_Witness ==
  \E c \in Calls :
    /\ Done(c) /\ status[c] = 401 /\ fault[c] = "none"
    /\ refreshes[c] = 2 /\ rtok[c] = 1 /\ yields = 1
    /\ access_token = 1

\* C26: every request carries an Authorization header, also when the
\* operation passes its own options, and those options are kept:
\* PlaylistManager.cover(id, image) sends a PUT with Content-Type
\* image/jpeg, the image string as it is and the bearer token; cover(id)
\* sends a GET with Content-Type application/json and no body.
C26_CoverKeepsItsHeaders ==
  \A c \in Calls :
    net[c] >= 1 =>
      /\ auth[c] \in Tokens
      /\ req[c].ctype \in {"application/json", "image/jpeg"}
      /\ op[c] = "PlaylistManager.cover" =>
            IF reqbody[c] = ImageString
              THEN /\ req[c].method = "put"
                   /\ req[c].ctype = "image/jpeg"
                   /\ sent[c] = [kind |-> "raw", text |-> <<>>,
                                 raw |-> ImageString.items]
              ELSE /\ req[c].method = "get"
                   /\ req[c].ctype = "application/json"
                   /\ sent[c] = NoBody

\* cover(id, image) has issued its first request with the token the
\* session was built with.
C26_Witness ==
  \E c \in Calls :
    /\ op[c] = "PlaylistManager.cover" /\ reqbody[c] = ImageString
    /\ pc[c] = "net" /\ net[c] = 1 /\ auth[c] = 0
    /\ req[c].method = "put" /\ req[c].ctype = "image/jpeg"

\* The cursors a call of PlayerManager.recent was given.
Given(c) ==
  {k \in {"after", "before"} : args[c][k] # "undefined"}

\* C27: PlayerManager.recent given both after and before throws before
\* any request is made and leaves the session as it was; given at most one
\* of them, its request has a query of limit and the cursor given, no
\* other.
C27_RecentTakesOneCursor ==
  \A c \in Calls :
    (op[c] = "PlayerManager.recent" /\ pc[c] # "idle")
    => IF Given(c) = {"after", "before"}
         THEN fault[c] = "sync" /\ net[c] = 0 /\ access_token = 0
         ELSE /\ fault[c] # "sync"
              /\ net[c] >= 1
              /\ req[c].query = {"limit"} \cup Given(c)

\* C28: PlayerManager.devices answered 200 with a JSON body resolves with
\* the device list; a successful response with a body is never rejected
\* as an ApiError.
C28_DevicesResolveOn200 ==
  \A c \in Calls :
    (Done(c) /\ op[c] = "PlayerManager.devices" /\ status[c] = 200
       /\ body[c] = "obj")
    => outcome[c].kind = "Success"

\* C29: PlaylistManager.followers answered 200 with a list resolves: with
\* the one boolean when the list has one element, with the list when it
\* has several; the call is neither rejected nor left pending.
C29_FollowersResolveOn200 ==
  \A c \in Calls :
    (Done(c) /\ op[c] = "PlaylistManager.followers" /\ status[c] = 200
       /\ body[c] \in {"list1", "listN"})
    => /\ outcome[c].kind = "Success"
       /\ body[c] = "list1" => outcome[c].val = "body[0]"
       /\ body[c] = "listN" => outcome[c].val = "body"

\* C30: the options of one call are not seen in the request of another.
\* A call that passes no options starts from the defaults: its first
\* request has Content-Type application/json, the Authorization of the
\* session's token and a body only if the call gave one; and a request
\* issued by one call, its retry with the refreshed token included, leaves
\* what every other call has sent as it was.
C30_HeadersDoNotLeak ==
  [][\A c \in Calls :
       net'[c] > net[c]
       => /\ \A d \in Calls \ {c} :
                /\ auth'[d] = auth[d] /\ sent'[d] = sent[d]
                /\ req'[d] = req[d]
          /\ (net[c] = 0 /\ op'[c] # "PlaylistManager.cover")
               => /\ req'[c].ctype = "application/json"
                  /\ auth'[c] = access_token
                  /\ sent'[c] = (IF KeysLength(reqbody'[c]) > 0
                                   THEN SentBody(reqbody'[c]) ELSE NoBody)]_vars

\* Call 1 sent {public: true} and, after its refresh, sent it again with
\* token 1; call 2, started before that refresh, is in flight with token 0
\* and without a body.
C30_Witness ==
  /\ workload = "concurrent"
  /\ net[1] = 2 /\ auth[1] = 1 /\ sent[1].kind = "json"
  /\ pc[2] = "net" /\ net[2] = 1 /\ auth[2] = 0 /\ sent[2] = NoBody
====
